---- MODULE Spec2Model ----
(***************************************************************************)
(* Model of the request pipeline of the V0-Clone backend:                  *)
(*   - generate_code_with_adk      (backend/main.py)                       *)
(*   - process_agent_event         (backend/services/agent_service.py)     *)
(*   - generate_code_stream        (backend/v0-clone-backend.py)           *)
(*   - parse_claude_response       (backend/v0-clone-backend.py)           *)
(*   - get_user_session, list_user_sessions                                *)
(*                                 (backend/services/agent_service.py)     *)
(*   - get_sessions, clear_session (backend/main.py)                       *)
(* A behaviour of Spec is one request.  A behaviour of StoreSpec is a run  *)
(* of concurrent requests on the session store.  Text is a sequence of     *)
(* one-character strings; a three-backtick fence is a single element of    *)
(* such a sequence.                                                        *)
(***************************************************************************)
EXTENDS Integers, Sequences, FiniteSets, TLC

VARIABLES
    impl,             \* "adk": main.py, "legacy": v0-clone-backend.py
    pc,               \* where the generator of the request stands
    prompt,           \* request.prompt
    req_session_id,   \* request.session_id, "" when absent
    api_key,          \* whether ANTHROPIC_API_KEY is set
    store,            \* ids of the sessions the session service holds
    bags,             \* the state bag of each session, by id
    calls,            \* where each concurrent call of get_user_session stands
    log,              \* the session operations that returned, in order
    session_id,       \* session.id of the acquired session
    deposit,          \* what the backend leaves under state["generated_code"]
    budget,           \* events (text deltas) the backend still delivers
    taken,            \* the events run_agent_with_session has yielded, in order
    stalled,          \* the backend delivers nothing more: no event, no end, no failure
    current_phase,
    files_data,       \* the files being streamed
    idx,              \* position of the file loop, from 1
    off,              \* i of the chunk loop
    full_response,    \* text accumulated by generate_code_stream
    extractor_calls,  \* texts the File Extractor was run on
    stream            \* events yielded so far

vars == <<impl, pc, prompt, req_session_id, api_key, store, bags, calls, log,
          session_id, deposit, budget, current_phase, files_data, idx, off,
          full_response, extractor_calls, stream, taken, stalled>>

(***************************************************************************)
(* Bounds of the model.                                                    *)
(***************************************************************************)
MaxEvents == 2
MaxParts == 2
MaxFiles == 2
MaxChunks == 2
MaxPieces == 2

(***************************************************************************)
(* Python's None.                                                          *)
(***************************************************************************)
None == [none |-> TRUE]

(***************************************************************************)
(* Sequence helpers.                                                       *)
(***************************************************************************)
Range(s) == {s[i] : i \in 1..Len(s)}

SeqsUpTo(S, n) == UNION {[1..k -> S] : k \in 0..n}

Min(a, b) == IF a < b THEN a ELSE b

\* Slice with the last character of every slice lost
SliceOffByOne(s, i, j) == SubSeq(s, i + 1, Min(j, Len(s)) - 1)

\* s[i:j] of Python for 0 <= i <= j, clipped to the length of s.
Slice(s, i, j) == SubSeq(s, i + 1, Min(j, Len(s)))

RECURSIVE Join(_)
Join(ss) == IF ss = <<>> THEN <<>> ELSE Head(ss) \o Join(Tail(ss))

\* "sub in s" of Python.
Contains(sub, s) ==
    \E i \in 0..(Len(s) - Len(sub)) : SubSeq(s, i + 1, i + Len(sub)) = sub

StartsWith(s, pre) == Len(pre) <= Len(s) /\ SubSeq(s, 1, Len(pre)) = pre

\* str.lower() on the letters the model uses.
UpperCase == [A |-> "a", D |-> "d", E |-> "e", G |-> "g", I |-> "i",
              L |-> "l", N |-> "n", O |-> "o", P |-> "p", R |-> "r",
              T |-> "t", V |-> "v", W |-> "w", F |-> "f"]

LowerChar(c) == IF c \in DOMAIN UpperCase THEN UpperCase[c] ELSE c

Lower(s) == [i \in 1..Len(s) |-> LowerChar(s[i])]

(***************************************************************************)
(* Text literals of the program and of the inputs.                         *)
(***************************************************************************)
S_planning == <<"p", "l", "a", "n", "n", "i", "n", "g">>
S_generat == <<"g", "e", "n", "e", "r", "a", "t">>
S_review == <<"r", "e", "v", "i", "e", "w">>

T_Planning == <<"P", "l", "a", "n", "n", "i", "n", "g">>
T_GENERATED == <<"G", "E", "N", "E", "R", "A", "T", "E", "D">>
T_ok == <<"o", "k">>

\* descriptions str(e) of the failures the backend may raise
E_rate_limit == <<"r", "a", "t", "e", "_", "l", "i", "m", "i", "t">>
E_Authentication == <<"A", "u", "t", "h", "e", "n", "t", "i", "c", "a", "t", "i", "o", "n">>
E_api_key == <<"a", "p", "i", "_", "k", "e", "y">>
E_not_found == <<"n", "o", "t", "_", "f", "o", "u", "n", "d">>
E_Overloaded == <<"O", "v", "e", "r", "l", "o", "a", "d", "e", "d">>
E_other == <<"b", "o", "o", "m">>

ErrDescs == {E_rate_limit, E_Authentication, E_api_key, E_not_found,
             E_Overloaded, E_other}

P_a == <<"a", ".", "j", "s">>
P_b == <<"b", ".", "c", "s", "s">>

Glyphs == <<"x", "y", "z">>

\* a file content of n characters
Pat(n) == [i \in 1..n |-> Glyphs[(i % 3) + 1]]

(***************************************************************************)
(* Inputs: raw backend events (google.adk Event as process_agent_event     *)
(* reads it) and the structured output the code generator agent leaves in  *)
(* session.state["generated_code"].                                        *)
(***************************************************************************)
TextPart(t) == [text |-> t, function_call |-> None, function_response |-> None]

CallPart == [text |-> <<>>,
             function_call |-> [name |-> S_review, args |-> S_planning],
             function_response |-> None]

ResponsePart == [text |-> <<>>,
                 function_call |-> None,
                 function_response |-> [name |-> S_review, response |-> S_generat]]

\* a message that carries a fenced css block with the path hint b.css
T_block == <<"<fence>", "c", "s", "s", " ">> \o P_b \o <<"\n", "y", "\n", "<fence>", "\n">>

\* part.text of None and of '' are both falsy and both join as ''
PartTexts == {<<>>, T_Planning, T_GENERATED, S_review, T_block}

Parts == {TextPart(t) : t \in PartTexts} \cup {CallPart, ResponsePart}

Contents == {None} \cup {[parts |-> ps] : ps \in SeqsUpTo(Parts, MaxParts)}

RawEvents == [content : Contents, final : BOOLEAN, author : {"manager_agent"}]

\* a chunk size one short of the documented one
ShortChunkSize == 100 - 1

\* chunk_size of generate_code_with_adk and of generate_code_stream
chunk_size == 100
legacy_chunk_size == 100

FileLens == {n \in {k * chunk_size + d : k \in 0..MaxChunks, d \in {-1, 0, 1}} : n >= 0}

GeneratedFiles == [path : {P_a, P_b}, content : {Pat(n) : n \in FileLens},
                   language : {"jsx"}]

Deposits == {None} \cup {[files |-> fs] : fs \in SeqsUpTo(GeneratedFiles, MaxFiles)}

FileA == [path |-> P_a, content |-> Pat(101), language |-> "jsx"]
FileB == [path |-> P_b, content |-> Pat(0), language |-> "jsx"]

SmallDeposits == {None, [files |-> <<>>], [files |-> <<FileA, FileB>>]}

TinyDeposits == {None, [files |-> <<FileB>>]}

Prompts == {<<>>, <<" ">>, <<"h", "i">>}

(***************************************************************************)
(* process_agent_event                                                     *)
(***************************************************************************)
\* ''.join(part.text or '' for part in parts if part.text)
JoinedText(parts) == Join([i \in 1..Len(parts) |-> parts[i].text])

IsToolPart(p) == p.function_call # None \/ p.function_response # None

\* the loop over the parts: the first part that is a call or a response
ToolEvent(parts) ==
    IF \E i \in 1..Len(parts) : IsToolPart(parts[i])
    THEN LET i == CHOOSE k \in 1..Len(parts) :
                      /\ IsToolPart(parts[k])
                      /\ \A j \in 1..(k - 1) : ~IsToolPart(parts[j])
             p == parts[i]
         IN  IF p.function_call # None
             THEN [type |-> "tool_call", tool |-> p.function_call.name,
                   args |-> p.function_call.args]
             ELSE [type |-> "tool_response", tool |-> p.function_response.name,
                   response |-> p.function_response.response]
    ELSE None

process_agent_event(event) ==
    IF event.content = None THEN None
    ELSE LET parts == event.content.parts
             text == JoinedText(parts)
         IN  IF event.final /\ parts # <<>> /\ text # <<>>
             THEN [type |-> "agent_response", author |-> event.author,
                   content |-> text, final |-> TRUE]
             ELSE IF parts # <<>> /\ text # <<>>
             THEN [type |-> "agent_response", author |-> event.author,
                   content |-> text, final |-> FALSE]
             ELSE IF parts # <<>> THEN ToolEvent(parts)
             ELSE None

(***************************************************************************)
(* The phase heuristic of generate_code_with_adk.                          *)
(***************************************************************************)
\* ContentOf that falls back on the fields of a tool event
ContentOfAnyField(processed) ==
    IF "content" \in DOMAIN processed THEN processed.content
    ELSE IF "args" \in DOMAIN processed THEN processed.tool \o processed.args
    ELSE IF "response" \in DOMAIN processed THEN processed.tool \o processed.response
    ELSE <<>>

\* processed.get("content", "")
ContentOf(processed) ==
    IF "content" \in DOMAIN processed THEN processed.content ELSE <<>>

\* TrackPhase without .lower()
TrackPhaseCaseSensitive(phase, processed) ==
    LET c == ContentOf(processed)
    IN  IF Contains(S_planning, c) THEN "planning"
        ELSE IF Contains(S_generat, c) THEN "generating"
        ELSE IF Contains(S_review, c) THEN "reviewing"
        ELSE phase

TrackPhase(phase, processed) ==
    LET c == Lower(ContentOf(processed))
    IN  IF Contains(S_planning, c) THEN "planning"
        ELSE IF Contains(S_generat, c) THEN "generating"
        ELSE IF Contains(S_review, c) THEN "reviewing"
        ELSE phase

(***************************************************************************)
(* Events on the wire (the dictionaries passed to json.dumps).  A message  *)
(* is its fixed words followed by the interpolated failure description.    *)
(***************************************************************************)
Msg(words) == [text |-> words, detail |-> <<>>]

M_no_files == Msg(<<"No", "files", "were", "generated", ".", "Please", "try", "again", ".">>)
M_not_complete == Msg(<<"Code", "generation", "did", "not", "complete", ".",
                        "Please", "try", "again", ".">>)
M_wrapped(desc) == [text |-> <<"Error", "generating", "code", ":">>, detail |-> desc]

SessionCreated(sid) == [type |-> "session_created", session_id |-> sid,
                        message |-> "Session initialized"]
AgentEvent(phase, processed) == [type |-> "agent_event", phase |-> phase, data |-> processed]
FileStart(path, size) == [type |-> "file_start", file_path |-> path, size |-> size]
ContentChunk(path, chunk) == [type |-> "content", file_path |-> path, content |-> chunk]
FileEnd(path) == [type |-> "file_end", file_path |-> path]
Complete(sid, n) == [type |-> "complete", session_id |-> sid, total_files |-> n]
SessionError(m, sid) == [type |-> "error", message |-> m, session_id |-> sid]
Error(m) == [type |-> "error", message |-> m]

FreshId == "new"

(***************************************************************************)
(* The session store: get_user_session over the session service that       *)
(* get_session_service builds on the database of DATABASE_URL.  A session  *)
(* is its id and its state bag; the bag is what it holds under             *)
(* "generated_code".                                                       *)
(***************************************************************************)
SessionIds == {"s1", "s2", FreshId}

\* a state bag without generated_code, and the values of generated_code
NoCode == ""
Codes == {"v1", "v2"}

\* str(e) of the exception create_session raises on an id that is stored
E_exists == <<"e", "x", "i", "s", "t", "s">>

Session(sid, state) == [id |-> sid, state |-> state]

\* session_service.get_session: the stored session, None for an id not stored
get_session(st, bg, sid) == IF sid \in st THEN Session(sid, bg[sid]) ELSE None

\* Lookup that never resolves an id
LookupMisses(st, bg, sid, lookup_ok) == None

\* "if session_id: try ... except Exception: pass": the session found, None
\* when no id was given, when the lookup raised or when it resolved nothing
Lookup(st, bg, sid, lookup_ok) ==
    IF sid # "" /\ lookup_ok THEN get_session(st, bg, sid) ELSE None

\* session_service.create_session(session_id = sid): a new record with an
\* empty state bag, under sid or under a generated id; on an id the database
\* holds already the insert either raises or replaces the record
Create(st, bg, sid, dup_ok) ==
    LET id == IF sid # "" THEN sid ELSE FreshId
    IN  IF id \in st /\ ~dup_ok
        THEN [store |-> st, bags |-> bg, outcome |-> "raised", session |-> None]
        ELSE [store |-> st \cup {id}, bags |-> [bg EXCEPT ![id] = NoCode],
              outcome |-> "created", session |-> Session(id, NoCode)]

\* the record of one call of get_user_session that ended
GetEntry(req, sid, existed, lookup_raised, outcome, session) ==
    [op |-> "get", req |-> req, session_id |-> sid, existed |-> existed,
     lookup_raised |-> lookup_raised, outcome |-> outcome, session |-> session]

\* get_user_session run without interruption
get_user_session(st, bg, sid, lookup_ok, dup_ok) ==
    LET found == Lookup(st, bg, sid, lookup_ok)
        made == Create(st, bg, sid, dup_ok)
        existed == sid \in st
        raised == sid # "" /\ ~lookup_ok
    IN  IF found # None
        THEN [store |-> st, bags |-> bg,
              entry |-> GetEntry(0, sid, existed, raised, "found", found)]
        ELSE [store |-> made.store, bags |-> made.bags,
              entry |-> GetEntry(0, sid, existed, raised, made.outcome, made.session)]

(***************************************************************************)
(* generate_code_with_adk, one action per step between two yields.         *)
(***************************************************************************)
AdkFrame == UNCHANGED <<impl, prompt, req_session_id, api_key, deposit,
                        full_response, extractor_calls, calls, taken, stalled>>

\* get_user_session_and_runner and the session_created event.  lookup_ok is
\* whether session_service.get_session returned instead of raising, dup_ok
\* whether create_session replaces a record whose id the database holds
\* already instead of raising.
AdkSession(lookup_ok, dup_ok) ==
    /\ impl = "adk" /\ pc = "start"
    /\ LET got == get_user_session(store, bags, req_session_id, lookup_ok, dup_ok)
       IN  /\ store' = got.store
           /\ bags' = got.bags
           /\ log' = Append(log, got.entry)
           /\ IF got.entry.outcome = "raised"
              THEN /\ stream' = Append(stream, Error(M_wrapped(E_exists)))
                   /\ pc' = "done"
                   /\ UNCHANGED <<session_id, current_phase>>
              ELSE /\ session_id' = got.entry.session.id
                   /\ stream' = Append(stream, SessionCreated(got.entry.session.id))
                   /\ current_phase' = "initializing"
                   /\ pc' = "run"
    /\ AdkFrame /\ UNCHANGED <<budget, files_data, idx, off>>

\* create_session or Runner(...) raises: the except branch of the generator
AdkSessionFault(desc) ==
    /\ impl = "adk" /\ pc = "start"
    /\ stream' = Append(stream, Error(M_wrapped(desc)))
    /\ pc' = "done"
    /\ AdkFrame /\ UNCHANGED <<bags, log, store, session_id, budget, current_phase, files_data, idx, off>>

\* AdkEvent that holds the agent event back instead of yielding it
AdkEventBuffered(event) ==
    /\ impl = "adk" /\ pc = "run" /\ ~stalled /\ budget > 0
    /\ budget' = budget - 1
    /\ LET processed == process_agent_event(event)
       IN  IF processed # None
           THEN current_phase' = TrackPhase(current_phase, processed)
           ELSE UNCHANGED current_phase
    /\ taken' = Append(taken, event)
    /\ UNCHANGED <<impl, prompt, req_session_id, api_key, deposit,
                   full_response, extractor_calls, calls, stalled>>
    /\ UNCHANGED <<bags, log, pc, store, session_id, files_data, idx, off, stream>>

\* one iteration of the async for over run_agent_with_session: the backend
\* event the inner generator yields, its normalization, the phase and the
\* agent_event
AdkEvent(event) ==
    /\ impl = "adk" /\ pc = "run" /\ ~stalled /\ budget > 0
    /\ budget' = budget - 1
    /\ LET processed == process_agent_event(event)
       IN  IF processed # None
           THEN /\ current_phase' = TrackPhase(current_phase, processed)
                /\ stream' = Append(stream, AgentEvent(current_phase', processed))
           ELSE UNCHANGED <<current_phase, stream>>
    /\ taken' = Append(taken, event)
    /\ UNCHANGED <<impl, prompt, req_session_id, api_key, deposit,
                   full_response, extractor_calls, calls, stalled>>
    /\ UNCHANGED <<bags, log, pc, store, session_id, files_data, idx, off>>

\* AdkBackendFault that ends the stream without an event
AdkBackendFaultSilent(desc) ==
    /\ impl = "adk" /\ pc = "run" /\ ~stalled
    /\ pc' = "done"
    /\ AdkFrame /\ UNCHANGED <<bags, log, store, session_id, budget, current_phase, files_data, idx, off, stream>>

\* the backend raises while the generator awaits the next event, or
\* process_agent_event or the read of session.state raises after it
AdkBackendFault(desc) ==
    /\ impl = "adk" /\ pc = "run" /\ ~stalled
    /\ stream' = Append(stream, Error(M_wrapped(desc)))
    /\ pc' = "done"
    /\ AdkFrame /\ UNCHANGED <<bags, log, store, session_id, budget, current_phase, files_data, idx, off>>

\* session.state.get("generated_code") once the backend stream has ended
generated_code == deposit

\* AdkExtract that loses the first file of the list
AdkExtractSkipsFirst ==
    /\ impl = "adk" /\ pc = "run" /\ ~stalled /\ budget = 0
    /\ generated_code # None
    /\ generated_code.files # <<>>
    /\ files_data' = Tail(generated_code.files)
    /\ idx' = 1
    /\ pc' = "file"
    /\ AdkFrame /\ UNCHANGED <<bags, log, store, session_id, budget, current_phase, off, stream>>

AdkExtract ==
    /\ impl = "adk" /\ pc = "run" /\ ~stalled /\ budget = 0
    /\ generated_code # None
    /\ generated_code.files # <<>>
    /\ files_data' = generated_code.files
    /\ idx' = 1
    /\ pc' = "file"
    /\ AdkFrame /\ UNCHANGED <<bags, log, store, session_id, budget, current_phase, off, stream>>

\* AdkNoFiles that goes on to the completion event after its error event
AdkNoFilesContinues ==
    /\ impl = "adk" /\ pc = "run" /\ ~stalled /\ budget = 0
    /\ generated_code # None
    /\ generated_code.files = <<>>
    /\ stream' = Append(stream, SessionError(M_no_files, session_id))
    /\ files_data' = <<>>
    /\ idx' = 1
    /\ pc' = "file"
    /\ AdkFrame /\ UNCHANGED <<bags, log, store, session_id, budget, current_phase, off>>

AdkNoFiles ==
    /\ impl = "adk" /\ pc = "run" /\ ~stalled /\ budget = 0
    /\ generated_code # None
    /\ generated_code.files = <<>>
    /\ stream' = Append(stream, SessionError(M_no_files, session_id))
    /\ pc' = "done"
    /\ AdkFrame /\ UNCHANGED <<bags, log, store, session_id, budget, current_phase, files_data, idx, off>>

AdkNoCode ==
    /\ impl = "adk" /\ pc = "run" /\ ~stalled /\ budget = 0
    /\ generated_code = None
    /\ stream' = Append(stream, SessionError(M_not_complete, session_id))
    /\ pc' = "done"
    /\ AdkFrame /\ UNCHANGED <<bags, log, store, session_id, budget, current_phase, files_data, idx, off>>

AdkFileStart ==
    /\ impl = "adk" /\ pc = "file" /\ idx <= Len(files_data)
    /\ LET file_path == files_data[idx].path
           file_content == files_data[idx].content
       IN  stream' = Append(stream, FileStart(file_path, Len(file_content)))
    /\ off' = 0
    /\ pc' = "chunk"
    /\ AdkFrame /\ UNCHANGED <<bags, log, store, session_id, budget, current_phase, files_data, idx>>

\* reading the next entry of the list raises (file_data.get, len of the
\* content): the except branch of the generator
AdkFileFault(desc) ==
    /\ impl = "adk" /\ pc = "file" /\ idx <= Len(files_data)
    /\ stream' = Append(stream, Error(M_wrapped(desc)))
    /\ pc' = "done"
    /\ AdkFrame /\ UNCHANGED <<bags, log, store, session_id, budget, current_phase, files_data, idx, off>>

\* AdkContent that labels every chunk with the path of the first file
AdkContentStalePath ==
    /\ impl = "adk" /\ pc = "chunk" /\ off < Len(files_data[idx].content)
    /\ LET file_path == files_data[1].path
           file_content == files_data[idx].content
           chunk == Slice(file_content, off, off + chunk_size)
       IN  stream' = Append(stream, ContentChunk(file_path, chunk))
    /\ off' = off + chunk_size
    /\ AdkFrame /\ UNCHANGED <<bags, log, pc, store, session_id, budget, current_phase, files_data, idx>>

\* for i in range(0, len(file_content), chunk_size)
AdkContent ==
    /\ impl = "adk" /\ pc = "chunk" /\ off < Len(files_data[idx].content)
    /\ LET file_path == files_data[idx].path
           file_content == files_data[idx].content
           chunk == Slice(file_content, off, off + chunk_size)
       IN  stream' = Append(stream, ContentChunk(file_path, chunk))
    /\ off' = off + chunk_size
    /\ AdkFrame /\ UNCHANGED <<bags, log, pc, store, session_id, budget, current_phase, files_data, idx>>

\* AdkFileEnd that moves on to the next file without the file_end event
AdkFileEndSkipped ==
    /\ impl = "adk" /\ pc = "chunk" /\ off >= Len(files_data[idx].content)
    /\ idx' = idx + 1
    /\ pc' = "file"
    /\ AdkFrame /\ UNCHANGED <<bags, log, store, session_id, budget, current_phase, files_data, off, stream>>

AdkFileEnd ==
    /\ impl = "adk" /\ pc = "chunk" /\ off >= Len(files_data[idx].content)
    /\ stream' = Append(stream, FileEnd(files_data[idx].path))
    /\ idx' = idx + 1
    /\ pc' = "file"
    /\ AdkFrame /\ UNCHANGED <<bags, log, store, session_id, budget, current_phase, files_data, off>>

\* AdkComplete that reports the session id of the request, not session.id
AdkCompleteRequestId ==
    /\ impl = "adk" /\ pc = "file" /\ idx > Len(files_data)
    /\ stream' = Append(stream, Complete(req_session_id, Len(files_data)))
    /\ pc' = "done"
    /\ AdkFrame /\ UNCHANGED <<bags, log, store, session_id, budget, current_phase, files_data, idx, off>>

AdkComplete ==
    /\ impl = "adk" /\ pc = "file" /\ idx > Len(files_data)
    /\ stream' = Append(stream, Complete(session_id, Len(files_data)))
    /\ pc' = "done"
    /\ AdkFrame /\ UNCHANGED <<bags, log, store, session_id, budget, current_phase, files_data, idx, off>>

(***************************************************************************)
(* The File Extractor: parse_claude_response (v0-clone-backend.py) and     *)
(* parse_code_from_response (main.py).  The regular expressions are        *)
(* evaluated as Python's re does: leftmost match, greedy quantifiers       *)
(* giving back from the right, lazy ones extending from the left.          *)
(***************************************************************************)
NL == "\n"
\* the three-backtick fence, one element of a text
FENCE == "<fence>"

WhiteSpace == {" ", NL}

WordChars == {"a", "b", "c", "d", "e", "f", "g", "h", "i", "j", "k", "l", "m",
              "n", "o", "p", "q", "r", "s", "t", "u", "v", "w", "x", "y", "z",
              "A", "D", "E", "F", "G", "I", "L", "N", "O", "P", "R", "T", "V",
              "W", "_"}

\* least element of a set of integers, or 0 when the set is empty
Least(P) == IF P = {} THEN 0 ELSE CHOOSE k \in P : \A m \in P : k <= m

\* number of consecutive elements of text from position i on that are in S
RunLen(text, i, S) ==
    LET stop == Least({k \in i..Len(text) : text[k] \notin S})
    IN  IF i > Len(text) THEN 0
        ELSE IF stop = 0 THEN Len(text) - i + 1
        ELSE stop - i

\* first position >= i holding c, or 0
Find(text, i, c) == Least({k \in i..Len(text) : text[k] = c})

\* str.strip(): from the first to the last element that is not white space
Strip(s) ==
    LET ink == {k \in 1..Len(s) : s[k] \notin WhiteSpace}
    IN  IF ink = {} THEN <<>>
        ELSE SubSeq(s, CHOOSE k \in ink : \A m \in ink : k <= m,
                       CHOOSE k \in ink : \A m \in ink : k >= m)

\* files[key] = value on a dict that keeps insertion order
DictPut(files, key, value) ==
    IF \E i \in 1..Len(files) : files[i].path = key
    THEN [i \in 1..Len(files) |->
             IF files[i].path = key THEN [path |-> key, content |-> value] ELSE files[i]]
    ELSE Append(files, [path |-> key, content |-> value])

\* The ways the head of the pattern (fence, optional word, white space,
\* optional // and white space) can match at the fence at position i: w word
\* characters, s white space, an optional // with s2 white space.  hint is
\* where the path hint group starts.
FenceHeads(text, i) ==
    UNION {UNION {LET c == i + 1 + w + s
                  IN  {[w |-> w, s |-> s, slash |-> 0, s2 |-> 0, hint |-> c]}
                      \cup (IF c + 1 <= Len(text) /\ text[c] = "/" /\ text[c + 1] = "/"
                            THEN {[w |-> w, s |-> s, slash |-> 1, s2 |-> s2,
                                   hint |-> c + 2 + s2] :
                                     s2 \in 0..RunLen(text, c + 2, WhiteSpace)}
                            ELSE {}) :
                  s \in 0..RunLen(text, i + 1 + w, WhiteSpace)} :
           w \in 0..RunLen(text, i + 1, WordChars)}

\* the rest of the pattern (hint up to a newline, the newline, the lazy body,
\* the closing fence) matches from h.hint
HeadMatches(text, h) ==
    LET q == Find(text, h.hint, NL)
    IN  q # 0 /\ Find(text, q + 1, FENCE) # 0

\* the order in which the backtracking matcher tries the heads
Preferred(g, h) ==
    \/ g.w > h.w
    \/ g.w = h.w /\ g.s > h.s
    \/ g.w = h.w /\ g.s = h.s /\ g.slash > h.slash
    \/ g.w = h.w /\ g.s = h.s /\ g.slash = h.slash /\ g.s2 > h.s2

\* language tag, path hint and body of the match at fence i, and where it ends
FenceMatch(text, i) ==
    LET good == {h \in FenceHeads(text, i) : HeadMatches(text, h)}
        h == CHOOSE g \in good : \A o \in good : o = g \/ Preferred(g, o)
        q == Find(text, h.hint, NL)
        f == Find(text, q + 1, FENCE)
    IN  [language |-> SubSeq(text, i + 1, i + h.w),
         potential_path |-> Strip(SubSeq(text, h.hint, q - 1)),
         code_content |-> Strip(SubSeq(text, q + 1, f - 1)),
         end |-> f]

HasFenceMatch(text, i) ==
    /\ i <= Len(text) /\ text[i] = FENCE
    /\ \E h \in FenceHeads(text, i) : HeadMatches(text, h)

L_javascript == <<"j", "a", "v", "a", "s", "c", "r", "i", "p", "t">>
L_jsx == <<"j", "s", "x">>
L_js == <<"j", "s">>
L_css == <<"c", "s", "s">>
L_html == <<"h", "t", "m", "l">>
S_src == <<"s", "r", "c", "/">>
S_App == <<"A", "p", "p">>
S_Component == <<"s", "r", "c", "/", "C", "o", "m", "p", "o", "n", "e", "n", "t", ".">>
S_index_html == <<"p", "u", "b", "l", "i", "c", "/", "i", "n", "d", "e", "x", ".", "h", "t", "m", "l">>

\* "Determine file path"
FilePath(language, potential_path) ==
    IF potential_path # <<>> /\ ("/" \in Range(potential_path) \/ "." \in Range(potential_path))
    THEN potential_path
    ELSE IF language \in {L_javascript, L_jsx, L_js}
    THEN S_src \o (IF potential_path # <<>> THEN potential_path ELSE S_App) \o <<".">> \o L_jsx
    ELSE IF language = L_css
    THEN S_src \o (IF potential_path # <<>> THEN potential_path ELSE S_App) \o <<".">> \o L_css
    ELSE IF language = L_html
    THEN S_index_html
    ELSE S_Component \o (IF language # <<>> THEN language ELSE L_jsx)

\* the loop over re.finditer(pattern, content, re.DOTALL), scanning from pos
RECURSIVE FencedFiles(_, _, _)
FencedFiles(text, pos, files) ==
    LET i == Find(text, pos, FENCE)
    IN  IF i = 0 THEN files
        ELSE IF HasFenceMatch(text, i)
        THEN LET m == FenceMatch(text, i)
             IN  FencedFiles(text, m.end + 1,
                             DictPut(files, FilePath(m.language, m.potential_path),
                                     m.code_content))
        ELSE FencedFiles(text, i + 1, files)

parse_code_from_response(content) == FencedFiles(content, 1, <<>>)

S_File == <<"F", "i", "l", "e", ":">>
S_file == <<"f", "i", "l", "e", ":">>

\* (?:^|\n)(?:File|file): with re.MULTILINE: a marker at the start of a line
IsMarkerAt(text, j) ==
    /\ j + 4 <= Len(text)
    /\ SubSeq(text, j, j + 4) \in {S_File, S_file}
    /\ (j = 1 \/ text[j - 1] = NL)

\* white space counts s after the marker at j from which the path group (one
\* or more characters other than a newline, then a newline) matches
MarkerHeads(text, j) ==
    {s \in 0..RunLen(text, j + 5, WhiteSpace) :
        LET d == j + 5 + s
        IN  d <= Len(text) /\ text[d] # NL /\ Find(text, d, NL) # 0}

\* re.sub of the residual fence markers on file_content, which is the
\* stripped single line the lazy group captured: only a fence at its end
\* is in front of $, and no opening fence is followed by a newline
StripFenceMarkers(s) ==
    IF s # <<>> /\ s[Len(s)] = FENCE THEN SubSeq(s, 1, Len(s) - 1) ELSE s

\* With re.MULTILINE the lookahead's $ holds in front of every newline, so the
\* lazy content group stops at the end of the first line after the marker.
MarkerMatch(text, j) ==
    LET good == MarkerHeads(text, j)
        s == CHOOSE g \in good : \A o \in good : o <= g
        d == j + 5 + s
        q == Find(text, d, NL)
        n == Find(text, q + 1, NL)
        r == IF n = 0 THEN Len(text) + 1 ELSE n
    IN  [file_path |-> Strip(SubSeq(text, d, q - 1)),
         file_content |-> StripFenceMarkers(Strip(SubSeq(text, q + 1, r - 1))),
         end |-> r - 1]

\* the loop over re.finditer(file_pattern, content, re.DOTALL | re.MULTILINE)
RECURSIVE MarkerFiles(_, _, _)
MarkerFiles(text, pos, files) ==
    LET j == Least({k \in pos..Len(text) : IsMarkerAt(text, k)})
    IN  IF j = 0 THEN files
        ELSE IF MarkerHeads(text, j) # {}
        THEN LET m == MarkerMatch(text, j)
             IN  MarkerFiles(text, m.end + 1, DictPut(files, m.file_path, m.file_content))
        ELSE MarkerFiles(text, j + 1, files)

parse_claude_response(content) ==
    LET files == FencedFiles(content, 1, <<>>)
    IN  IF files = <<>> THEN MarkerFiles(content, 1, <<>>) ELSE files

(***************************************************************************)
(* Text the legacy backend receives from the model, in the format its      *)
(* system prompt asks for, and in the other shapes the extractor handles.  *)
(***************************************************************************)
S_src_App_jsx == S_src \o S_App \o <<".">> \o L_jsx

Fenced(language, hint, body) ==
    <<FENCE>> \o language \o (IF hint = <<>> THEN <<>> ELSE <<" ">> \o hint)
              \o <<NL>> \o body \o <<NL, FENCE, NL>>

Marked(path, body) == S_File \o <<" ">> \o path \o <<NL>> \o body \o <<NL>>

Pieces ==
    {Fenced(L_jsx, S_src_App_jsx, Pat(n)) : n \in FileLens}
    \cup {Fenced(L_css, P_b, <<" ">> \o Pat(2) \o <<" ">>),
          Fenced(L_css, <<>>, Pat(1)),
          Fenced(<<>>, <<>>, <<>>),
          Marked(P_a, Pat(3)),
          Marked(P_b, <<"x", NL, "y">>),
          Fenced(L_jsx, P_a, FileA.content), Fenced(L_css, P_b, FileB.content),
          T_ok, <<" ">>}

(***************************************************************************)
(* generate_code_stream, one action per step between two awaits or yields. *)
(***************************************************************************)
M_no_key == Msg(<<"API", "key", "not", "configured", ".", "Please", "set",
                  "ANTHROPIC_API_KEY", "in", ".env", "file">>)
M_empty_prompt == Msg(<<"Prompt", "cannot", "be", "empty">>)
M_empty_response == Msg(<<"Claude", "returned", "an", "empty", "response", ".",
                          "Please", "try", "again", ".">>)
M_no_parse == Msg(<<"Could", "not", "parse", "files", "from", "Claude's", "response", ".",
                    "The", "response", "might", "not", "contain", "properly",
                    "formatted", "code", "blocks", ".">>)
M_timeout == Msg(<<"Request", "timed", "out", ".", "The", "generation", "took", "too",
                   "long", ".", "Please", "try", "a", "simpler", "prompt", ".">>)
M_rate_limit == Msg(<<"Rate", "limit", "exceeded", ".", "Please", "wait", "a", "moment",
                      "and", "try", "again", ".">>)
M_auth == Msg(<<"Invalid", "API", "key", ".", "Please", "check", "your",
                "ANTHROPIC_API_KEY", "in", ".env", "file", ".">>)
M_model == Msg(<<"Model", "not", "found", ".", "The", "specified", "Claude", "model",
                 "may", "not", "be", "available", "with", "your", "API", "key", ".">>)
M_overloaded == Msg(<<"Claude", "API", "is", "currently", "overloaded", ".", "Please",
                      "try", "again", "in", "a", "moment", ".">>)

LegacyComplete(n) == [type |-> "complete", total_files |-> n]

\* the except Exception branch of generate_code_stream
ErrorMessage(error_message) ==
    LET m == Lower(error_message)
    IN  IF Contains(E_rate_limit, m) THEN M_rate_limit
        ELSE IF Contains(Lower(E_Authentication), m) \/ Contains(E_api_key, m) THEN M_auth
        ELSE IF Contains(E_not_found, m) THEN M_model
        ELSE IF Contains(Lower(E_Overloaded), m) THEN M_overloaded
        ELSE M_wrapped(error_message)

LegacyFrame == UNCHANGED <<impl, prompt, req_session_id, api_key, store, bags, calls, log, session_id,
                           deposit, current_phase, taken, stalled>>

LegacyNoKey ==
    /\ impl = "legacy" /\ pc = "start"
    /\ ~api_key
    /\ stream' = Append(stream, Error(M_no_key))
    /\ pc' = "done"
    /\ LegacyFrame /\ UNCHANGED <<budget, files_data, idx, off, full_response, extractor_calls>>

LegacyEmptyPrompt ==
    /\ impl = "legacy" /\ pc = "start"
    /\ api_key
    /\ (prompt = <<>> \/ Strip(prompt) = <<>>)
    /\ stream' = Append(stream, Error(M_empty_prompt))
    /\ pc' = "done"
    /\ LegacyFrame /\ UNCHANGED <<budget, files_data, idx, off, full_response, extractor_calls>>

\* the backend falls silent while the generator awaits its next event (the
\* async for of main.py 167 over run_agent_with_session, the async for of
\* v0-clone-backend.py 156 over stream.text_stream): from here on it
\* delivers no event, does not end its stream and raises nothing.  No
\* statement of either generator bounds the await.
BackendStall ==
    /\ \/ impl = "adk" /\ pc = "run"
       \/ impl = "legacy" /\ pc = "recv"
    /\ ~stalled
    /\ stalled' = TRUE
    /\ UNCHANGED <<impl, pc, prompt, req_session_id, api_key, store, bags, calls, log,
                   session_id, deposit, budget, current_phase, files_data, idx, off,
                   full_response, extractor_calls, stream, taken>>

\* AsyncAnthropic(...) and client.messages.stream(...) are entered
LegacyOpen ==
    /\ impl = "legacy" /\ pc = "start"
    /\ api_key
    /\ ~(prompt = <<>> \/ Strip(prompt) = <<>>)
    /\ full_response' = <<>>
    /\ pc' = "recv"
    /\ LegacyFrame /\ UNCHANGED <<budget, files_data, idx, off, extractor_calls, stream>>

\* async for text in stream.text_stream
LegacyText(text) ==
    /\ impl = "legacy" /\ pc = "recv" /\ ~stalled /\ budget > 0
    /\ budget' = budget - 1
    /\ full_response' = full_response \o text
    /\ LegacyFrame /\ UNCHANGED <<pc, files_data, idx, off, extractor_calls, stream>>

LegacyTimeout ==
    /\ impl = "legacy" /\ pc = "recv" /\ ~stalled
    /\ stream' = Append(stream, Error(M_timeout))
    /\ pc' = "done"
    /\ LegacyFrame /\ UNCHANGED <<budget, files_data, idx, off, full_response, extractor_calls>>

LegacyFault(desc) ==
    /\ impl = "legacy" /\ pc = "recv" /\ ~stalled
    /\ stream' = Append(stream, Error(ErrorMessage(desc)))
    /\ pc' = "done"
    /\ LegacyFrame /\ UNCHANGED <<budget, files_data, idx, off, full_response, extractor_calls>>

LegacyEmptyResponse ==
    /\ impl = "legacy" /\ pc = "recv" /\ ~stalled /\ budget = 0
    /\ (full_response = <<>> \/ Strip(full_response) = <<>>)
    /\ stream' = Append(stream, Error(M_empty_response))
    /\ pc' = "done"
    /\ LegacyFrame /\ UNCHANGED <<budget, files_data, idx, off, full_response, extractor_calls>>

\* LegacyParseFail that reports success with no file
LegacyParseFailSilent ==
    /\ impl = "legacy" /\ pc = "recv" /\ ~stalled /\ budget = 0
    /\ ~(full_response = <<>> \/ Strip(full_response) = <<>>)
    /\ parse_claude_response(full_response) = <<>>
    /\ extractor_calls' = Append(extractor_calls, full_response)
    /\ stream' = Append(stream, LegacyComplete(0))
    /\ pc' = "done"
    /\ LegacyFrame /\ UNCHANGED <<budget, files_data, idx, off, full_response>>

LegacyParseFail ==
    /\ impl = "legacy" /\ pc = "recv" /\ ~stalled /\ budget = 0
    /\ ~(full_response = <<>> \/ Strip(full_response) = <<>>)
    /\ parse_claude_response(full_response) = <<>>
    /\ extractor_calls' = Append(extractor_calls, full_response)
    /\ stream' = Append(stream, Error(M_no_parse))
    /\ pc' = "done"
    /\ LegacyFrame /\ UNCHANGED <<budget, files_data, idx, off, full_response>>

LegacyParse ==
    /\ impl = "legacy" /\ pc = "recv" /\ ~stalled /\ budget = 0
    /\ ~(full_response = <<>> \/ Strip(full_response) = <<>>)
    /\ parse_claude_response(full_response) # <<>>
    /\ extractor_calls' = Append(extractor_calls, full_response)
    /\ files_data' = parse_claude_response(full_response)
    /\ idx' = 1
    /\ pc' = "file"
    /\ LegacyFrame /\ UNCHANGED <<budget, off, full_response, stream>>

LegacyFileStart ==
    /\ impl = "legacy" /\ pc = "file" /\ idx <= Len(files_data)
    /\ LET file_path == files_data[idx].path
           content == files_data[idx].content
       IN  stream' = Append(stream, FileStart(file_path, Len(content)))
    /\ off' = 0
    /\ pc' = "chunk"
    /\ LegacyFrame /\ UNCHANGED <<budget, files_data, idx, full_response, extractor_calls>>

LegacyContent ==
    /\ impl = "legacy" /\ pc = "chunk" /\ off < Len(files_data[idx].content)
    /\ LET file_path == files_data[idx].path
           content == files_data[idx].content
           chunk == Slice(content, off, off + legacy_chunk_size)
       IN  stream' = Append(stream, ContentChunk(file_path, chunk))
    /\ off' = off + legacy_chunk_size
    /\ LegacyFrame /\ UNCHANGED <<pc, budget, files_data, idx, full_response, extractor_calls>>

LegacyFileEnd ==
    /\ impl = "legacy" /\ pc = "chunk" /\ off >= Len(files_data[idx].content)
    /\ stream' = Append(stream, FileEnd(files_data[idx].path))
    /\ idx' = idx + 1
    /\ pc' = "file"
    /\ LegacyFrame /\ UNCHANGED <<budget, files_data, off, full_response, extractor_calls>>

LegacyFinish ==
    /\ impl = "legacy" /\ pc = "file" /\ idx > Len(files_data)
    /\ stream' = Append(stream, LegacyComplete(Len(files_data)))
    /\ pc' = "done"
    /\ LegacyFrame /\ UNCHANGED <<budget, files_data, idx, off, full_response, extractor_calls>>

(***************************************************************************)
(* One request.                                                            *)
(***************************************************************************)
(***************************************************************************)
(* The session endpoints and get_user_session as independent requests run  *)
(* them: every await is a step of its own, and each request works on the   *)
(* one database through a session service of its own.                      *)
(***************************************************************************)
MaxRequests == 2
MaxOps == 3
MaxPage == 2
MaxPageSize == 2

Requests == 1..MaxRequests

Idle == [pc |-> "idle", session_id |-> "", existed |-> FALSE, lookup_raised |-> FALSE]

InFlight == Cardinality({p \in Requests : calls[p].pc # "idle"})

StoreFrame == UNCHANGED <<impl, pc, prompt, req_session_id, api_key, session_id,
                          deposit, budget, current_phase, files_data, idx, off,
                          full_response, extractor_calls, stream, taken, stalled>>

\* request p enters get_user_session with session_id = sid
StoreCall(p, sid) ==
    /\ impl = "store" /\ calls[p].pc = "idle"
    /\ Len(log) + InFlight < MaxOps
    /\ sid = "" => /\ FreshId \notin store
                   /\ \A q \in Requests : calls[q].pc = "idle" \/ calls[q].session_id # ""
    /\ calls' = [calls EXCEPT ![p] = [pc |-> IF sid # "" THEN "lookup" ELSE "create",
                                      session_id |-> sid, existed |-> FALSE,
                                      lookup_raised |-> FALSE]]
    /\ UNCHANGED <<store, bags, log>> /\ StoreFrame

\* await session_service.get_session(...) of request p
StoreLookup(p, lookup_ok) ==
    /\ impl = "store" /\ calls[p].pc = "lookup"
    /\ LET sid == calls[p].session_id
           found == Lookup(store, bags, sid, lookup_ok)
       IN  IF found # None
           THEN /\ log' = Append(log, GetEntry(p, sid, TRUE, FALSE, "found", found))
                /\ calls' = [calls EXCEPT ![p] = Idle]
           ELSE /\ calls' = [calls EXCEPT ![p] = [pc |-> "create", session_id |-> sid,
                                                  existed |-> sid \in store,
                                                  lookup_raised |-> ~lookup_ok]]
                /\ UNCHANGED log
    /\ UNCHANGED <<store, bags>> /\ StoreFrame

\* await session_service.create_session(...) of request p
StoreCreate(p, dup_ok) ==
    /\ impl = "store" /\ calls[p].pc = "create"
    /\ LET sid == calls[p].session_id
           made == Create(store, bags, sid, dup_ok)
       IN  /\ store' = made.store
           /\ bags' = made.bags
           /\ log' = Append(log, GetEntry(p, sid, calls[p].existed, calls[p].lookup_raised,
                                          made.outcome, made.session))
    /\ calls' = [calls EXCEPT ![p] = Idle]
    /\ StoreFrame

\* the code generator agent saves its output under output_key in the state
\* bag of the session a request runs on
StoreWrite(sid, v) ==
    /\ impl = "store" /\ sid \in store
    /\ Len(log) + InFlight < MaxOps
    /\ bags' = [bags EXCEPT ![sid] = v]
    /\ log' = Append(log, [op |-> "write", session_id |-> sid, value |-> v])
    /\ UNCHANGED <<store, calls>> /\ StoreFrame

\* the reply of POST /api/sessions/clear
clear_session(sid) == [status |-> "success", message |-> <<"Session", sid, "cleared">>]

ClearSession(sid) ==
    /\ impl = "store"
    /\ Len(log) + InFlight < MaxOps
    /\ log' = Append(log, [op |-> "clear", session_id |-> sid, existed |-> sid \in store,
                           reply |-> clear_session(sid)])
    /\ UNCHANGED <<store, bags, calls>> /\ StoreFrame

\* the reply of list_user_sessions, which get_sessions returns as it is
list_user_sessions(page, page_size) ==
    LET sessions == <<>>
    IN  [sessions |-> Slice(sessions, (page - 1) * page_size, page * page_size),
         total |-> Len(sessions), page |-> page, page_size |-> page_size]

ListSessions(page, page_size) ==
    /\ impl = "store"
    /\ Len(log) + InFlight < MaxOps
    /\ log' = Append(log, [op |-> "list", stored |-> store,
                           reply |-> list_user_sessions(page, page_size)])
    /\ UNCHANGED <<store, bags, calls>> /\ StoreFrame

Init ==
    /\ impl \in {"adk", "legacy"}
    /\ pc = "start"
    /\ stream = <<>>
    /\ session_id = ""
    /\ current_phase = "initializing"
    /\ files_data = <<>>
    /\ idx = 1
    /\ off = 0
    /\ full_response = <<>>
    /\ extractor_calls = <<>>
    /\ bags = [i \in SessionIds |-> NoCode]
    /\ calls = [p \in Requests |-> Idle]
    /\ log = <<>>
    /\ taken = <<>>
    /\ stalled = FALSE
    /\ IF impl = "adk"
       THEN /\ api_key = TRUE
            /\ \/ /\ prompt \in Prompts
                  /\ req_session_id \in {"", "s1"}
                  /\ store \in {{}, {"s1"}}
                  /\ budget \in 0..1
                  /\ deposit \in SmallDeposits
               \/ /\ prompt = <<"h", "i">>
                  /\ req_session_id = ""
                  /\ store = {}
                  /\ \/ budget \in 0..MaxEvents /\ deposit \in TinyDeposits
                     \/ budget = 0 /\ deposit \in Deposits
       ELSE /\ prompt \in Prompts
            /\ api_key \in BOOLEAN
            /\ req_session_id = ""
            /\ store = {}
            /\ budget \in 0..MaxPieces
            /\ deposit = None

Next ==
    \/ \E lookup_ok \in BOOLEAN, dup_ok \in BOOLEAN : AdkSession(lookup_ok, dup_ok)
    \/ \E desc \in ErrDescs : AdkSessionFault(desc)
    \/ \E event \in RawEvents : AdkEvent(event)
    \/ \E desc \in ErrDescs : AdkBackendFault(desc)
    \/ AdkExtract
    \/ AdkNoFiles
    \/ AdkNoCode
    \/ AdkFileStart
    \/ \E desc \in ErrDescs : AdkFileFault(desc)
    \/ AdkContent
    \/ AdkFileEnd
    \/ AdkComplete
    \/ LegacyNoKey
    \/ LegacyEmptyPrompt
    \/ LegacyOpen
    \/ \E text \in Pieces : LegacyText(text)
    \/ LegacyTimeout
    \/ \E desc \in ErrDescs : LegacyFault(desc)
    \/ LegacyEmptyResponse
    \/ LegacyParseFail
    \/ LegacyParse
    \/ LegacyFileStart
    \/ LegacyContent
    \/ LegacyFileEnd
    \/ LegacyFinish
    \/ BackendStall

Spec == Init /\ [][Next]_vars

(***************************************************************************)
(* The session store under concurrent requests.                            *)
(***************************************************************************)
StoreInit ==
    /\ impl = "store"
    /\ pc = "idle"
    /\ prompt = <<>>
    /\ req_session_id = ""
    /\ api_key = TRUE
    /\ session_id = ""
    /\ deposit = None
    /\ budget = 0
    /\ current_phase = "initializing"
    /\ files_data = <<>>
    /\ idx = 1
    /\ off = 0
    /\ full_response = <<>>
    /\ extractor_calls = <<>>
    /\ stream = <<>>
    /\ taken = <<>>
    /\ stalled = FALSE
    /\ store \in {{}, {"s1"}}
    /\ bags \in [SessionIds -> {NoCode} \cup Codes]
    /\ \A i \in SessionIds \ store : bags[i] = NoCode
    /\ calls = [p \in Requests |-> Idle]
    /\ log = <<>>

StoreNext ==
    \/ \E p \in Requests, sid \in {"", "s1"} : StoreCall(p, sid)
    \/ \E p \in Requests, lookup_ok \in BOOLEAN : StoreLookup(p, lookup_ok)
    \/ \E p \in Requests, dup_ok \in BOOLEAN : StoreCreate(p, dup_ok)
    \/ \E sid \in SessionIds, v \in Codes : StoreWrite(sid, v)
    \/ \E sid \in {"s1", "s2"} : ClearSession(sid)
    \/ \E page \in 1..MaxPage, page_size \in 1..MaxPageSize : ListSessions(page, page_size)

StoreSpec == StoreInit /\ [][StoreNext]_vars

(***************************************************************************)
(* Reading a stream.                                                       *)
(***************************************************************************)
Terminal(e) == e.type \in {"complete", "error"}

Starts(s) == {i \in 1..Len(s) : s[i].type = "file_start"}

Ends(s) == {i \in 1..Len(s) : s[i].type = "file_end"}

IsContentFor(e, p) == e.type = "content" /\ e.file_path = p

IsEndFor(e, p) == e.type = "file_end" /\ e.file_path = p

\* the first event after the file_start at i that is not a content event for
\* the path of that file_start, or 0
CloseOf(s, i) ==
    Least({j \in (i + 1)..Len(s) : ~IsContentFor(s[j], s[i].file_path)})

\* the text carried by the content events at the positions from..to
RECURSIVE Carried(_, _, _)
Carried(s, from, to) ==
    IF from > to THEN <<>> ELSE s[from].content \o Carried(s, from + 1, to)

\* the text carried by all the content events for the path p
RECURSIVE CarriedFor(_, _)
CarriedFor(s, p) ==
    IF s = <<>> THEN <<>>
    ELSE (IF IsContentFor(Head(s), p) THEN Head(s).content ELSE <<>>)
         \o CarriedFor(Tail(s), p)

\* the positions of the file_start events, in order
StartSeq(s) ==
    LET n == Cardinality(Starts(s))
    IN  [k \in 1..n |->
            CHOOSE i \in Starts(s) : Cardinality({j \in Starts(s) : j <= i}) = k]

\* the files a stream carries: per file_start, its path and the text of the
\* content events up to the event that closes it
StreamedFiles(s) ==
    LET st == StartSeq(s)
    IN  [k \in 1..Len(st) |->
            LET i == st[k]
                j == IF CloseOf(s, i) = 0 THEN Len(s) + 1 ELSE CloseOf(s, i)
            IN  [path |-> s[i].file_path, content |-> Carried(s, i + 1, j - 1)]]

DistinctPaths(files) ==
    \A k, m \in 1..Len(files) : files[k].path = files[m].path => k = m

Finished == pc = "done"

C2_TerminalIsLast ==
    \A i \in 1..Len(stream) : Terminal(stream[i]) => i = Len(stream)

\* once a terminal event is out, the generator yields nothing more
C2_Witness ==
    /\ Finished
    /\ Len(stream) > 1
    /\ Terminal(stream[Len(stream)])

(***************************************************************************)
(* C3.  As stated: a file_end for p never comes before a file_start for p, *)
(* and no content event for p comes after a file_end for p.                *)
(***************************************************************************)
C3_Original ==
    \A j \in 1..Len(stream) :
        /\ stream[j].type = "file_end" =>
              \E i \in 1..(j - 1) : stream[i].type = "file_start"
                                    /\ stream[i].file_path = stream[j].file_path
        /\ stream[j].type = "content" =>
              \A i \in 1..(j - 1) : ~IsEndFor(stream[i], stream[j].file_path)

\* C3 as amended: a file_end for p never comes before a file_start for p,
\* every content event for p lies between a file_start for p and the file_end
\* that closes it, and when the file list does not repeat a path no content
\* event for p comes after a file_end for p.
C3_Bracketed ==
    /\ \A j \in 1..Len(stream) :
          /\ stream[j].type = "file_end" =>
                \E i \in 1..(j - 1) : stream[i].type = "file_start"
                                      /\ stream[i].file_path = stream[j].file_path
          /\ stream[j].type = "content" =>
                \E i \in Starts(stream) :
                    /\ i < j
                    /\ stream[i].file_path = stream[j].file_path
                    /\ (CloseOf(stream, i) = 0 \/ CloseOf(stream, i) > j)
    /\ DistinctPaths(files_data) =>
          \A j \in 1..Len(stream) :
              stream[j].type = "content" =>
                  \A i \in 1..(j - 1) : ~IsEndFor(stream[i], stream[j].file_path)

\* a content event has just been yielded for the second file of the list
C3_Witness ==
    /\ pc = "chunk" /\ idx = 2 /\ off > 0
    /\ stream[Len(stream)].type = "content"
    /\ DistinctPaths(files_data)

(***************************************************************************)
(* C4.  As stated: for every path in the stream, the content events        *)
(* carrying that path, concatenated in emission order, are the content of  *)
(* the file with that path.                                                *)
(***************************************************************************)
C4_Original ==
    (Finished /\ stream[Len(stream)].type = "complete") =>
        \A k \in 1..Len(files_data) :
            CarriedFor(stream, files_data[k].path) = files_data[k].content

\* C4 as amended: for every file of the list, the content events between its
\* file_start and its file_end, concatenated in emission order, are exactly
\* its content; so for every path that the list holds once, all content
\* events carrying that path together reconstruct the file.  This holds for
\* the lists of the session state and for those of the File Extractor.
C4_Reconstructs ==
    (Finished /\ stream[Len(stream)].type = "complete") =>
        /\ StreamedFiles(stream) =
              [k \in 1..Len(files_data) |->
                  [path |-> files_data[k].path, content |-> files_data[k].content]]
        /\ \A k \in 1..Len(files_data) :
              (\A m \in 1..Len(files_data) : files_data[m].path = files_data[k].path => m = k)
                  => CarriedFor(stream, files_data[k].path) = files_data[k].content

\* a completed stream of a file of more than one chunk
C4_Witness ==
    /\ Finished /\ stream[Len(stream)].type = "complete"
    /\ \E k \in 1..Len(files_data) : Len(files_data[k].content) > 100
    /\ DistinctPaths(files_data)

(***************************************************************************)
(* C5.  File content is cut into chunks of 100 characters in order: every  *)
(* content event of a file carries 1..100 characters, every one but the    *)
(* last carries exactly 100, there are ceil(len/100) of them, and a file   *)
(* with empty content has none between its file_start and its file_end.    *)
(***************************************************************************)
C5_Chunks ==
    (Finished /\ stream[Len(stream)].type = "complete") =>
        LET st == StartSeq(stream)
        IN  /\ Len(st) = Len(files_data)
            /\ \A k \in 1..Len(st) :
                  LET i == st[k]
                      j == CloseOf(stream, i)
                      n == Len(files_data[k].content)
                  IN  /\ j # 0
                      /\ \A c \in (i + 1)..(j - 1) :
                            /\ Len(stream[c].content) >= 1
                            /\ Len(stream[c].content) <= 100
                            /\ c < j - 1 => Len(stream[c].content) = 100
                      /\ j - i - 1 = (n + 99) \div 100
                      /\ n = 0 => j = i + 1

\* a completed stream with an empty file, a file of exactly two full chunks
\* or a file whose last chunk is short
C5_Witness ==
    /\ Finished /\ stream[Len(stream)].type = "complete"
    /\ \E k \in 1..Len(files_data) : Len(files_data[k].content) \in {0, 200, 201}

Last(s) == s[Len(s)]

\* the request ran generate_code_with_adk to its end and the backend stream
\* ended without raising
BackendEnded ==
    /\ impl = "adk" /\ Finished
    /\ ~(Last(stream).type = "error" /\ Last(stream).message.text = M_wrapped(<<>>).text)

AgentEvents(s) == {i \in 1..Len(s) : s[i].type = "agent_event"}

(***************************************************************************)
(* C6.  A run of generate_code_with_adk that ends in complete is: one      *)
(* session_created, first; then the agent events; then, per file of the    *)
(* list and in list order, a file_start, its content events and a          *)
(* file_end; then one complete whose total_files is the number of          *)
(* file_start (and file_end) events and whose session_id is the one of     *)
(* session_created.                                                        *)
(***************************************************************************)
C6_CompleteShape ==
    (impl = "adk" /\ Finished /\ Last(stream).type = "complete") =>
        LET n == Len(stream)
            a == Cardinality(AgentEvents(stream))
            st == StartSeq(stream)
        IN  /\ stream[1].type = "session_created"
            /\ \A i \in 2..n : stream[i].type # "session_created"
            /\ \A i \in 2..(a + 1) : stream[i].type = "agent_event"
            /\ \A i \in (a + 2)..(n - 1) :
                  stream[i].type \in {"file_start", "content", "file_end"}
            /\ a + 2 <= n - 1 => stream[a + 2].type = "file_start"
            /\ \A k \in 1..Len(st) :
                  /\ CloseOf(stream, st[k]) # 0
                  /\ IsEndFor(stream[CloseOf(stream, st[k])], stream[st[k]].file_path)
                  /\ CloseOf(stream, st[k]) < n - 1 =>
                        stream[CloseOf(stream, st[k]) + 1].type = "file_start"
            /\ [k \in 1..Len(st) |-> stream[st[k]].file_path] =
                  [k \in 1..Len(deposit.files) |-> deposit.files[k].path]
            /\ \A i \in 1..(n - 1) : stream[i].type # "complete"
            /\ stream[n].total_files = Cardinality(Starts(stream))
            /\ stream[n].total_files = Cardinality(Ends(stream))
            /\ stream[n].session_id = stream[1].session_id

\* a completed run with agent events, two files and a session made for it
C6_Witness ==
    /\ impl = "adk" /\ Finished /\ Last(stream).type = "complete"
    /\ AgentEvents(stream) # {}
    /\ Cardinality(Starts(stream)) = 2
    /\ req_session_id = ""

(***************************************************************************)
(* C7.  When the backend stream has ended and the state bag holds a        *)
(* structured output with a non-empty files list, the files streamed are   *)
(* the entries of that list, in list order, and the File Extractor was not *)
(* run on any text.                                                        *)
(***************************************************************************)
C7_StateBagFiles ==
    (BackendEnded /\ deposit # None /\ deposit.files # <<>>) =>
        /\ StreamedFiles(stream) =
              [k \in 1..Len(deposit.files) |->
                  [path |-> deposit.files[k].path, content |-> deposit.files[k].content]]
        /\ extractor_calls = <<>>
        /\ Last(stream).type = "complete"

\* two different files were streamed from the state bag after agent messages
C7_Witness ==
    /\ BackendEnded /\ deposit # None /\ Len(deposit.files) = 2
    /\ deposit.files[1] # deposit.files[2]
    /\ Last(stream).type = "complete"

\* the text of the final agent messages of the run, concatenated
RECURSIVE FinalText(_)
FinalText(s) ==
    IF s = <<>> THEN <<>>
    ELSE (IF Head(s).type = "agent_event" /\ Head(s).data.type = "agent_response"
             /\ Head(s).data.final
          THEN Head(s).data.content ELSE <<>>) \o FinalText(Tail(s))

(***************************************************************************)
(* C8.  When the state bag holds no structured output after the backend    *)
(* stream has ended, the files streamed are those the File Extractor       *)
(* returns for the concatenated text of the final agent messages.          *)
(***************************************************************************)
C8_TextFallback ==
    (BackendEnded /\ deposit = None) =>
        StreamedFiles(stream) = parse_code_from_response(FinalText(stream))

NoFilesPrefix == <<"No", "files", "were", "generated">>

\* extraction has run and yielded no file
ZeroFiles ==
    \/ BackendEnded /\ (deposit = None \/ deposit.files = <<>>)
    \/ /\ impl = "legacy" /\ Finished
       /\ extractor_calls # <<>>
       /\ parse_claude_response(extractor_calls[1]) = <<>>

HasWord(kw, text) ==
    \E o \in 0..(Len(text) - Len(kw)) :
        \A k \in 1..Len(kw) : LowerChar(text[o + k]) = kw[k]

\* the phase reported by the agent event before position i
PhaseBefore(s, i) ==
    LET before == {j \in AgentEvents(s) : j < i}
    IN  IF before = {} THEN "initializing"
        ELSE s[CHOOSE j \in before : \A m \in before : m <= j].phase

(***************************************************************************)
(* C10.  The phase starts at initializing; each agent message makes it     *)
(* planning if its text contains "planning" in any letter case, else       *)
(* generating if it contains "generat", else reviewing if it contains      *)
(* "review", else leaves it; an agent_event reports the phase after its    *)
(* own text was applied.                                                   *)
(***************************************************************************)
C10_PhaseTracking ==
    /\ (impl = "adk" /\ AgentEvents(stream) = {}) => current_phase = "initializing"
    /\ \A i \in AgentEvents(stream) :
          stream[i].data.type = "agent_response" =>
              stream[i].phase =
                  IF HasWord(S_planning, stream[i].data.content) THEN "planning"
                  ELSE IF HasWord(S_generat, stream[i].data.content) THEN "generating"
                  ELSE IF HasWord(S_review, stream[i].data.content) THEN "reviewing"
                  ELSE PhaseBefore(stream, i)
    /\ (impl = "adk" /\ pc = "run") => current_phase = PhaseBefore(stream, Len(stream) + 1)

\* a message without any of the words came after the phase had left
\* initializing, and a message with both "review" and "planning" was seen
C10_Witness ==
    /\ \E i \in AgentEvents(stream) :
          /\ stream[i].data.type = "agent_response"
          /\ ~HasWord(S_planning, stream[i].data.content)
          /\ ~HasWord(S_generat, stream[i].data.content)
          /\ ~HasWord(S_review, stream[i].data.content)
          /\ stream[i].phase # "initializing"
    /\ \E i \in AgentEvents(stream) :
          /\ stream[i].data.type = "agent_response"
          /\ HasWord(S_review, stream[i].data.content)
          /\ HasWord(S_generat, stream[i].data.content)

IsCall(p) == p.function_call # None

IsResponse(p) == p.function_response # None

\* the first part of parts that carries a tool invocation, None when none does
FirstCall(parts) ==
    IF \E i \in 1..Len(parts) : IsCall(parts[i])
    THEN parts[CHOOSE k \in 1..Len(parts) :
                   IsCall(parts[k]) /\ \A j \in 1..(k - 1) : ~IsCall(parts[j])]
    ELSE None

\* the first part of parts that carries a tool result, None when none does
FirstResponse(parts) ==
    IF \E i \in 1..Len(parts) : IsResponse(parts[i])
    THEN parts[CHOOSE k \in 1..Len(parts) :
                   IsResponse(parts[k]) /\ \A j \in 1..(k - 1) : ~IsResponse(parts[j])]
    ELSE None

\* the rules of the normalizer, applied to an event in their stated order
RuleResult(event) ==
    IF event.content = None THEN None
    ELSE LET parts == event.content.parts
             text == JoinedText(parts)
             call == FirstCall(parts)
             response == FirstResponse(parts)
         IN  IF event.final /\ text # <<>>
             THEN [type |-> "agent_response", author |-> event.author,
                   content |-> text, final |-> TRUE]
             ELSE IF ~event.final /\ text # <<>>
             THEN [type |-> "agent_response", author |-> event.author,
                   content |-> text, final |-> FALSE]
             ELSE IF call # None
             THEN [type |-> "tool_call", tool |-> call.function_call.name,
                   args |-> call.function_call.args]
             ELSE IF response # None
             THEN [type |-> "tool_response", tool |-> response.function_response.name,
                   response |-> response.function_response.response]
             ELSE None

(***************************************************************************)
(* C11.  Every raw event the generator takes from the backend is mapped    *)
(* to the result of the first rule that matches it, in the order: no       *)
(* content, final with text, not final with text, tool invocation, tool    *)
(* result, nothing; the step appends that one result as an agent event,    *)
(* or nothing when no rule gives a result.                                 *)
(***************************************************************************)
C11_RuleOrder ==
    [][\A event \in RawEvents :
          AdkEvent(event) =>
              stream' = IF RuleResult(event) = None THEN stream
                        ELSE Append(stream, AgentEvent(current_phase', RuleResult(event)))]_vars

(***************************************************************************)
(* Readers of the log of session operations.                               *)
(***************************************************************************)
Gets(l) == {i \in 1..Len(l) : l[i].op = "get"}

\* the call of entry i was given the id of a stored session and its lookup
\* did not raise
Resolvable(l, i) ==
    /\ l[i].op = "get" /\ l[i].session_id # ""
    /\ l[i].existed /\ ~l[i].lookup_raised

\* entry k changes the state bag stored under sid
Touches(l, k, sid) ==
    \/ l[k].op = "write" /\ l[k].session_id = sid
    \/ l[k].op = "get" /\ l[k].outcome = "created" /\ l[k].session.id = sid

(***************************************************************************)
(* C12.  Two calls of get_user_session with the id of a session that is    *)
(* stored, whose lookups resolve it, both return that session and create   *)
(* none; when nothing wrote to the session in between, the two returned    *)
(* state bags are identical.                                               *)
(***************************************************************************)
C12_SessionReuse ==
    \A i \in Gets(log), j \in Gets(log) :
        (i < j /\ log[i].session_id = log[j].session_id
           /\ Resolvable(log, i) /\ Resolvable(log, j)) =>
            /\ log[i].outcome = "found" /\ log[j].outcome = "found"
            /\ log[i].session.id = log[i].session_id
            /\ log[j].session.id = log[i].session_id
            /\ (\A k \in (i + 1)..(j - 1) : ~Touches(log, k, log[i].session_id))
                  => log[j].session = log[i].session

\* a stored session that holds generated code was returned to two calls
C12_Witness ==
    \E i \in Gets(log), j \in Gets(log) :
        /\ i < j /\ log[i].session_id = log[j].session_id
        /\ Resolvable(log, i) /\ Resolvable(log, j)
        /\ log[i].outcome = "found" /\ log[j].outcome = "found"
        /\ log[i].session.state \in Codes
        /\ log[j].session = log[i].session

\* the lookup of the call of entry i failed: it raised, or the id is not stored
LookupFailed(l, i) ==
    /\ l[i].op = "get" /\ l[i].session_id # ""
    /\ l[i].lookup_raised \/ ~l[i].existed

(***************************************************************************)
(* C13.  A call of get_user_session whose lookup fails (it raises, or the  *)
(* id is not stored) returns a new session, and the stream of the request  *)
(* starts with the session_created event of that session, not with an      *)
(* error event.                                                            *)
(***************************************************************************)
C13_LookupFailure ==
    \A i \in Gets(log) :
        LookupFailed(log, i) =>
            /\ log[i].outcome = "created"
            /\ impl = "adk" => /\ stream # <<>>
                               /\ stream[1].type = "session_created"
                               /\ stream[1].session_id = log[i].session.id

\* the calls that were given the id sid and whose lookup did not raise
GetsOf(l, sid) == {i \in Gets(l) : l[i].session_id = sid /\ ~l[i].lookup_raised}

\* the state bag stored under sid after the entries before position i,
\* NoCode when no entry before i touched it
BagBefore(l, i, sid) ==
    LET before == {k \in 1..(i - 1) : Touches(l, k, sid)}
        k == CHOOSE m \in before : \A n \in before : n <= m
    IN  IF before = {} THEN NoCode
        ELSE IF l[k].op = "write" THEN l[k].value ELSE NoCode

(***************************************************************************)
(* C14.  Among the calls of get_user_session that requests make with one   *)
(* session id, in every interleaving of their lookup and create steps: at  *)
(* most one call creates the session, no call fails, every other call      *)
(* gets the stored session, and a session that was created or written      *)
(* during the run is returned with the state bag last stored.              *)
(***************************************************************************)
C14_Linearizable ==
    \A sid \in SessionIds \ {FreshId} :
        /\ Cardinality({i \in GetsOf(log, sid) : log[i].outcome = "created"}) <= 1
        /\ \A i \in GetsOf(log, sid) :
              /\ log[i].outcome # "raised"
              /\ log[i].session.id = sid
              /\ (\E k \in 1..(i - 1) : Touches(log, k, sid))
                    => log[i].session.state = BagBefore(log, i, sid)

\* the stored sessions of st in their order
FullList(st) == SelectSeq(<<"s1", "s2", FreshId>>, LAMBDA i : i \in st)

(***************************************************************************)
(* C15.  The reply of list_user_sessions(page, page_size) holds the slice  *)
(* from (page-1)*page_size to page*page_size of the full ordered list of   *)
(* the stored sessions, total is the length of that full list, and a page  *)
(* past the end gives an empty list.                                       *)
(***************************************************************************)
C15_Pagination ==
    \A i \in 1..Len(log) :
        log[i].op = "list" =>
            LET full == FullList(log[i].stored)
                page == log[i].reply.page
                page_size == log[i].reply.page_size
            IN  /\ log[i].reply.total = Len(full)
                /\ log[i].reply.sessions =
                       Slice(full, (page - 1) * page_size, page * page_size)
                /\ (page - 1) * page_size >= Len(full) => log[i].reply.sessions = <<>>

(***************************************************************************)
(* C16.  clear_session replies success exactly when the session was        *)
(* stored; and a later call of get_user_session with the id of a session   *)
(* cleared with success does not find the session, unless it was created   *)
(* again after the clear.                                                  *)
(***************************************************************************)
C16_Clear ==
    \A i \in 1..Len(log) :
        log[i].op = "clear" =>
            /\ log[i].reply.status = "success" <=> log[i].existed
            /\ log[i].reply.status = "success" =>
                  \A j \in Gets(log) :
                      (/\ j > i
                       /\ log[j].session_id = log[i].session_id
                       /\ \A k \in (i + 1)..(j - 1) :
                             ~(log[k].op = "get" /\ log[k].outcome = "created"))
                          => log[j].outcome # "found"

\* the kind of a failure, by the words its description contains in any
\* letter case
FailureClass(desc) ==
    IF HasWord(E_rate_limit, desc) THEN "rate_limit"
    ELSE IF HasWord(Lower(E_Authentication), desc) \/ HasWord(E_api_key, desc)
    THEN "authentication"
    ELSE IF HasWord(E_not_found, desc) THEN "not_found"
    ELSE IF HasWord(Lower(E_Overloaded), desc) THEN "overloaded"
    ELSE "other"

\* the words of phrase stand next to each other in words
HasPhrase(phrase, words) ==
    \E o \in 0..(Len(words) - Len(phrase)) :
        \A k \in 1..Len(phrase) : words[o + k] = phrase[k]

(***************************************************************************)
(* C17.  When the backend raises while a request consumes its stream, the  *)
(* request yields one error event, whose message is the one of the kind    *)
(* of the failure: rate limit, authentication, model not found and         *)
(* overloaded have a message each, any other failure gets the generic      *)
(* message that wraps the description; the message of an authentication    *)
(* failure contains "API key".                                             *)
(***************************************************************************)
C17_Classified ==
    [][\A desc \in ErrDescs :
          (AdkBackendFault(desc) \/ LegacyFault(desc)) =>
              LET class == FailureClass(desc)
                  m == Last(stream').message
              IN  /\ stream' = Append(stream, Error(m))
                  /\ m = CASE class = "rate_limit" -> M_rate_limit
                           [] class = "authentication" -> M_auth
                           [] class = "not_found" -> M_model
                           [] class = "overloaded" -> M_overloaded
                           [] OTHER -> M_wrapped(desc)
                  /\ class = "authentication" => HasPhrase(<<"API", "key">>, m.text)]_vars

\* the prompt is empty or holds white space only
Blank(s) == \A i \in 1..Len(s) : s[i] \in WhiteSpace

(***************************************************************************)
(* C18.  A request whose prompt is empty or white space only acquires no   *)
(* session, and its stream is a single error event: no session_created,    *)
(* no agent event and no file event.                                       *)
(***************************************************************************)
C18_EmptyPrompt ==
    (impl \in {"adk", "legacy"} /\ Blank(prompt)) =>
        /\ log = <<>>
        /\ Len(stream) <= 1
        /\ \A i \in 1..Len(stream) : stream[i].type = "error"
        /\ Finished => Len(stream) = 1

\* the step is one in which a step of the request raised
Raises ==
    \/ \E desc \in ErrDescs : AdkSessionFault(desc)
    \/ \E lookup_ok \in BOOLEAN : AdkSession(lookup_ok, FALSE) /\ pc' = "done"
    \/ \E desc \in ErrDescs : AdkBackendFault(desc)
    \/ \E desc \in ErrDescs : AdkFileFault(desc)
    \/ \E desc \in ErrDescs : LegacyFault(desc)
    \/ LegacyTimeout

(***************************************************************************)
(* C19.  A step of a request that raises, at whatever point of the         *)
(* request, ends the stream with an error event: the event is appended,    *)
(* it is the only terminal event of the stream, and the request is over.   *)
(***************************************************************************)
C19_FaultEndsInError ==
    [][Raises =>
          /\ Len(stream') = Len(stream) + 1
          /\ SubSeq(stream', 1, Len(stream)) = stream
          /\ Last(stream').type = "error"
          /\ \A i \in 1..Len(stream) : ~Terminal(stream[i])
          /\ pc' = "done"]_vars

\* a request ended with the error event of a fault after it had streamed a
\* file
C19_Witness ==
    /\ impl = "adk" /\ Finished
    /\ Last(stream).type = "error"
    /\ Last(stream).message.text = M_wrapped(<<>>).text
    /\ \E i \in 1..Len(stream) : stream[i].type = "file_end"

\* the path the rules give to a block with language tag tag and path hint hint
RulePath(tag, hint) ==
    IF hint # <<>> /\ (\E k \in 1..Len(hint) : hint[k] \in {"/", "."}) THEN hint
    ELSE IF tag \in {L_jsx, L_js, L_javascript}
    THEN S_src \o (IF hint = <<>> THEN S_App ELSE hint) \o <<".", "j", "s", "x">>
    ELSE IF tag = L_css
    THEN S_src \o (IF hint = <<>> THEN S_App ELSE hint) \o <<".", "c", "s", "s">>
    ELSE IF tag = L_html THEN S_index_html
    ELSE S_src \o <<"C", "o", "m", "p", "o", "n", "e", "n", "t", ".">>
               \o (IF tag = <<>> THEN L_jsx ELSE tag)

(***************************************************************************)
(* C20.  When the generated text is one fenced block (fence, language tag, *)
(* path hint on the same line, body, fence), the File Extractor gives one  *)
(* file, whose path is the one the rules assign to the tag and the hint    *)
(* of the block: a css block with no hint gets src/App.css, a block with   *)
(* neither tag nor hint gets src/Component.jsx.                            *)
(***************************************************************************)
C20_PathRule ==
    \A tag \in {<<>>, L_css, L_jsx}, hint \in {<<>>, P_b, S_src_App_jsx},
       body \in {<<>>, Pat(1), <<" ">> \o Pat(2) \o <<" ">>} :
        (/\ impl = "legacy" /\ pc \in {"file", "chunk", "done"}
         /\ extractor_calls = <<Fenced(tag, hint, body)>>) =>
            /\ Len(files_data) = 1
            /\ files_data[1].path = RulePath(tag, hint)

\* fenced blocks: three that carry a path hint on the fence line, one that
\* carries none
HintedBlocks ==
    {[tag |-> L_jsx, hint |-> S_src_App_jsx, body |-> Pat(1)],
     [tag |-> L_jsx, hint |-> S_src_App_jsx, body |-> Pat(100)],
     [tag |-> L_css, hint |-> P_b, body |-> <<" ">> \o Pat(2) \o <<" ">>]}

Blocks == HintedBlocks \cup {[tag |-> L_css, hint |-> <<>>, body |-> Pat(1)]}

\* the text made of the blocks bs, one after the other
RECURSIVE BlocksText(_)
BlocksText(bs) ==
    IF bs = <<>> THEN <<>>
    ELSE Fenced(bs[1].tag, bs[1].hint, bs[1].body) \o BlocksText(Tail(bs))

\* one entry per distinct path of bs, in order of first appearance, holding
\* the trimmed body of the last block with that path
LastWrites(bs) ==
    LET path(i) == RulePath(bs[i].tag, bs[i].hint)
        firsts == SelectSeq([i \in 1..Len(bs) |-> i],
                            LAMBDA i : \A k \in 1..(i - 1) : path(k) # path(i))
        last(i) == CHOOSE j \in 1..Len(bs) :
                       /\ path(j) = path(i)
                       /\ \A k \in (j + 1)..Len(bs) : path(k) # path(i)
    IN  [n \in 1..Len(firsts) |->
            [path |-> path(firsts[n]),
             content |-> Strip(bs[last(firsts[n])].body)]]

\* the result of the extraction on a run of the blocks in bset is the last
\* writes of the run
Extracts(bset) ==
    \A bs \in SeqsUpTo(bset, MaxPieces) :
        (/\ impl = "legacy" /\ pc \in {"file", "chunk", "done"}
         /\ bs # <<>>
         /\ extractor_calls = <<BlocksText(bs)>>) =>
            /\ files_data = LastWrites(bs)
            /\ parse_code_from_response(extractor_calls[1]) = LastWrites(bs)

(***************************************************************************)
(* C21.  When the text is a run of fenced blocks, the File Extractor's     *)
(* result has one entry per distinct path, in order of first appearance,   *)
(* holding the trimmed body of the last block with that path; blocks with  *)
(* distinct path hints give one entry each, keyed by the hints.            *)
(***************************************************************************)
C21_LastWriteWins == Extracts(Blocks)

\* the same on the runs of blocks that all carry a path hint
C21_OnHintedBlocks == Extracts(HintedBlocks)

\* File: markers with the content that follows them
Markers ==
    {[path |-> P_a, body |-> Pat(3)], [path |-> P_b, body |-> <<"x", NL, "y">>]}

RECURSIVE MarkersText(_)
MarkersText(ms) ==
    IF ms = <<>> THEN <<>>
    ELSE Marked(ms[1].path, ms[1].body) \o MarkersText(Tail(ms))

\* one entry per marker, with the content up to the next marker or the end
MarkerEntries(ms) ==
    [n \in 1..Len(ms) |-> [path |-> ms[n].path, content |-> Strip(ms[n].body)]]

\* on a text with a fenced block before or after a File: marker, the result
\* has the entry of the block and none of the marker
FencedPassOnly ==
    (impl = "legacy" /\ pc \in {"file", "chunk", "done"}) =>
        \A b \in HintedBlocks, m \in Markers :
            (\/ extractor_calls = <<BlocksText(<<b>>) \o MarkersText(<<m>>)>>
             \/ extractor_calls = <<MarkersText(<<m>>) \o BlocksText(<<b>>)>>) =>
                files_data = LastWrites(<<b>>)

\* on a text of File: markers with distinct paths and no fenced block, the
\* result is one entry per marker, with the content up to the next marker or
\* the end of the text
MarkerPass(mset) ==
    (impl = "legacy" /\ pc \in {"file", "chunk", "done"}) =>
        \A ms \in SeqsUpTo(mset, MaxPieces) :
            (/\ ms # <<>>
             /\ \A i, j \in 1..Len(ms) : ms[i].path = ms[j].path => i = j
             /\ extractor_calls = <<MarkersText(ms)>>) =>
                files_data = MarkerEntries(ms)

(***************************************************************************)
(* C22.  The two passes of the File Extractor are mutually exclusive: the  *)
(* File: marker pass runs only when the fenced-block pass produced no      *)
(* entry, and then it returns one entry per marker with the content up to  *)
(* the next marker or the end of the text; when the fenced-block pass      *)
(* produced an entry, no entry of the result comes from a marker.          *)
(***************************************************************************)
C22_ExclusivePasses == FencedPassOnly /\ MarkerPass(Markers)

\* the part of C22 on texts with a fenced block
C22_OnFencedText == FencedPassOnly

\* the part of C22 on markers whose content is one line
C22_OnOneLineMarkers == MarkerPass({[path |-> P_a, body |-> Pat(3)]})

\* the normalizations of the events evs that are not None, in order
Normalized(evs) ==
    LET kept == SelectSeq([i \in 1..Len(evs) |-> i],
                          LAMBDA i : process_agent_event(evs[i]) # None)
    IN  [n \in 1..Len(kept) |-> process_agent_event(evs[kept[n]])]

\* the data of the agent events of the stream s, in order
AgentData(s) ==
    LET kept == SelectSeq([i \in 1..Len(s) |-> i], LAMBDA i : s[i].type = "agent_event")
    IN  [n \in 1..Len(kept) |-> s[kept[n]].data]

(***************************************************************************)
(* C23.  Canonical events are forwarded as they become available: at any   *)
(* moment the agent events of the stream are the normalizations of all     *)
(* the backend events taken so far, in the order of the backend events     *)
(* (so the agent event of the i-th backend event is in the stream when     *)
(* the next one is taken), and there is no file_start in the stream while  *)
(* the backend stream has not ended, nor an agent event after a            *)
(* file_start.                                                             *)
(***************************************************************************)
C23_Forwarded ==
    /\ impl = "adk" => AgentData(stream) = Normalized(taken)
    /\ impl \in {"adk", "legacy"} =>
          \A i \in 1..Len(stream) :
              stream[i].type = "file_start" =>
                  /\ pc \notin {"start", "run", "recv"}
                  /\ \A j \in AgentEvents(stream) : j < i

\* two backend events were taken, both normalized to an agent event, and the
\* backend stream has not ended
C23_Witness ==
    /\ impl = "adk" /\ pc = "run" /\ budget = 0
    /\ Len(taken) = 2 /\ Len(Normalized(taken)) = 2
    /\ taken[1] # taken[2]
    /\ Len(stream) = 3

\* files are streamed after agent events
C23_WitnessFiles ==
    /\ impl = "adk" /\ AgentEvents(stream) # {}
    /\ \E i \in 1..Len(stream) : stream[i].type = "file_start"

\* the place of a phase in the order initializing, planning, generating,
\* reviewing
PhaseRank(phase) ==
    CASE phase = "initializing" -> 0
      [] phase = "planning" -> 1
      [] phase = "generating" -> 2
      [] phase = "reviewing" -> 3
      [] OTHER -> 4

(***************************************************************************)
(* C24.  Within one request the phase is monotonic in the order            *)
(* initializing, planning, generating, reviewing: the phase of a later     *)
(* agent_event is never an earlier phase than the phase of a previous      *)
(* agent_event.                                                            *)
(***************************************************************************)
C24_Monotonic ==
    impl = "adk" =>
        \A i, j \in AgentEvents(stream) :
            i < j => PhaseRank(stream[i].phase) <= PhaseRank(stream[j].phase)

(***************************************************************************)
(* C25.  When the backend's event stream has ended and the terminal event  *)
(* is emitted, the phase is complete, or failed when the extraction gave   *)
(* zero files; it is never initializing, planning, generating or           *)
(* reviewing.                                                              *)
(***************************************************************************)
C25_FinalPhase ==
    (BackendEnded /\ Last(stream).type \in {"complete", "error"}) =>
        /\ current_phase \in {"complete", "failed"}
        /\ Last(stream).type = "complete" => current_phase = "complete"
        /\ ZeroFiles => current_phase = "failed"

\* a raw event with no text whose parts include a tool invocation and a tool
\* result
CallAndResult(event) ==
    /\ event.content # None
    /\ JoinedText(event.content.parts) = <<>>
    /\ \E i \in 1..Len(event.content.parts) : IsCall(event.content.parts[i])
    /\ \E i \in 1..Len(event.content.parts) : IsResponse(event.content.parts[i])

(***************************************************************************)
(* C26.  For a backend event with no text whose parts include both a tool  *)
(* invocation and a tool result, the normalization is the tool call,       *)
(* whatever the order of the parts.                                        *)
(***************************************************************************)
C26_CallBeforeResult ==
    impl = "adk" =>
        \A i \in 1..Len(taken) :
            CallAndResult(taken[i]) =>
                /\ process_agent_event(taken[i]).type = "tool_call"
                /\ \E j \in AgentEvents(stream) : stream[j].data.type = "tool_call"

\* the part of C26 on events whose tool invocation comes first
C26_OnCallFirst ==
    impl = "adk" =>
        \A i \in 1..Len(taken) :
            (CallAndResult(taken[i]) /\ IsCall(taken[i].content.parts[1])) =>
                process_agent_event(taken[i]).type = "tool_call"

(***************************************************************************)
(* C27.  No request blocks without bound: when the backend delivers no     *)
(* further event and does not end its stream, a request that has not       *)
(* emitted its terminal event can still take a step, and that step emits   *)
(* an error event with a timed-out message.                                *)
(***************************************************************************)
C27_NoBlocking ==
    (impl \in {"adk", "legacy"} /\ ~Finished /\ stalled) =>
        ENABLED (/\ stream' = Append(stream, Error(M_timeout))
                 /\ Next)

\* the agent events of the stream s that carry a tool call or a tool response
ToolEvents(s) ==
    {i \in AgentEvents(s) : s[i].data.type \in {"tool_call", "tool_response"}}

(***************************************************************************)
(* C28.  Tool-call and tool-response events never change the phase: the    *)
(* agent_event emitted for one carries the phase that held before it, and  *)
(* that is the phase after it, whatever the tool name, the arguments or    *)
(* the response contain.                                                   *)
(***************************************************************************)
C28_ToolKeepsPhase ==
    impl = "adk" =>
        \A i \in ToolEvents(stream) :
            /\ stream[i].phase = PhaseBefore(stream, i)
            /\ (pc = "run" /\ i = Len(stream)) => current_phase = PhaseBefore(stream, i)

\* a tool call whose name and arguments contain phase words came after the
\* phase had moved to generating, and the phase is still generating
C28_Witness ==
    /\ impl = "adk" /\ pc = "run"
    /\ Len(stream) = 3
    /\ stream[2].type = "agent_event" /\ stream[2].phase = "generating"
    /\ stream[3].type = "agent_event" /\ stream[3].data.type = "tool_call"
    /\ Contains(S_review, stream[3].data.tool)
    /\ Contains(S_planning, stream[3].data.args)
    /\ current_phase = "generating"

\* the (path, content) pairs of a list of files
PathContent(files) ==
    [i \in 1..Len(files) |-> [path |-> files[i].path, content |-> files[i].content]]

\* the file_start, content, file_end and complete events of the stream s, in
\* order, the complete reduced to its total_files
FilePart(s) ==
    LET kept == SelectSeq([i \in 1..Len(s) |-> i],
                          LAMBDA i : s[i].type \in {"file_start", "content",
                                                    "file_end", "complete"})
    IN  [n \in 1..Len(kept) |->
            IF s[kept[n]].type = "complete"
            THEN [type |-> "complete", total_files |-> s[kept[n]].total_files]
            ELSE s[kept[n]]]

\* the chunks of generate_code_with_adk for a content
ChunksOf(content) ==
    [k \in 1..((Len(content) + chunk_size - 1) \div chunk_size) |->
        Slice(content, (k - 1) * chunk_size, k * chunk_size)]

\* the events of one file: file_start, one content per chunk, file_end
FileEvents(file) ==
    <<FileStart(file.path, Len(file.content))>>
    \o [k \in 1..Len(ChunksOf(file.content)) |->
           ContentChunk(file.path, ChunksOf(file.content)[k])]
    \o <<FileEnd(file.path)>>

RECURSIVE FileEncoding(_)
FileEncoding(files) ==
    IF files = <<>> THEN <<>>
    ELSE FileEvents(files[1]) \o FileEncoding(Tail(files))

(***************************************************************************)
(* C29.  The two streaming encoders are equivalent on the file part of     *)
(* the stream: a run of either generator that ends in complete has         *)
(* emitted, for its ordered list of files, the same file_start, content    *)
(* and file_end events with the same paths, sizes and chunks, followed by  *)
(* a complete with the same total_files; both emit the same events for     *)
(* the same list.                                                          *)
(***************************************************************************)
C29_SameEncoding ==
    (impl \in {"adk", "legacy"} /\ Finished /\ Last(stream).type = "complete") =>
        FilePart(stream) =
            FileEncoding(PathContent(files_data))
            \o <<[type |-> "complete", total_files |-> Len(files_data)]>>

\* generate_code_stream has streamed the list of FileA and FileB
C29_Witness ==
    /\ impl = "legacy" /\ Finished /\ Last(stream).type = "complete"
    /\ PathContent(files_data) = PathContent(<<FileA, FileB>>)

\* generate_code_with_adk has streamed the list of FileA and FileB
C29_WitnessAdk ==
    /\ impl = "adk" /\ Finished /\ Last(stream).type = "complete"
    /\ PathContent(files_data) = PathContent(<<FileA, FileB>>)

====
